---- MODULE Spec2Model ----
(***************************************************************************)
(* Model of the session-metrics aggregation of ViewResultsPage.tsx: the    *)
(* page effect, calculateMetrics, the suspended write to the persistence   *)
(* sink and the deferred navigation of silent mode.                        *)
(*                                                                         *)
(* Representation choices                                                  *)
(*  - a stored item is [state, value]: state "absent" (getItem gives       *)
(*    null), "malformed" (JSON.parse throws) or "json" (parses to value);  *)
(*  - a value-list entry is [id, name, raw]: a bare string s is            *)
(*    [id |-> "", name |-> "", raw |-> s] (property reads on a string      *)
(*    give undefined), an object has raw = "[object Object]";              *)
(*  - timestamps are milliseconds, 0 standing for an absent (falsy) one;   *)
(*  - a duration in seconds is kept as its exact number of thousandths,    *)
(*    so (endTime - startTime) / 1000 is the integer endTime - startTime   *)
(*    and the literal 75 is 75 * 1000;                                     *)
(*  - an optional boolean is "true", "false" or "undefined";               *)
(*  - a normalized simulation metric and the two indices computed from    *)
(*    them are kept as exact numbers of hundredths; the snapshots of the   *)
(*    model have livesSaved a multiple of 200 and humanCasualties a        *)
(*    multiple of 10, for which the divisions by 20000 and 1000 are exact  *)
(*    in hundredths.                                                       *)
(***************************************************************************)
EXTENDS Integers, Sequences, FiniteSets, TLC

\* ------------------------------------------------------------------ bounds
MaxOutcomes == 2
MaxHistory == 2
MaxEvents == 2
MaxMounts == 2

\* ------------------------------------------------------- program constants
FallbackSeconds == 75
Thousandths == 1000
Hundredths == 100
LivesSavedCap == 20000
CasualtiesCap == 1000
ConditionScale == 100

\* ---------------------------------------------------------------- helpers
RECURSIVE SumSeq(_)
SumSeq(s) == IF s = <<>> THEN 0 ELSE Head(s) + SumSeq(Tail(s))

Max(a, b) == IF a >= b THEN a ELSE b

Includes(list, x) == \E k \in 1..Len(list) : list[k] = x

\* String.prototype.toLowerCase over the strings of the model
ToLowerCase(s) ==
  CASE s = "Safety" -> "safety"
    [] s = "Fairness" -> "fairness"
    [] s = "SPEED" -> "speed"
    [] OTHER -> s

\* Math.round of a duration held in thousandths (half rounds up)
MathRound(t) == (t + 500) \div Thousandths

\* JSON.parse(localStorage.getItem(key) || fallback)
ParseItem(item, fallback) == IF item.state = "absent" THEN fallback ELSE item.value

ParseThrows(item) == item.state = "malformed"

\* ------------------------------------------------------ value list resolver
\* (v.name || v).toString().toLowerCase()
ResolveMatched(v) == ToLowerCase(IF v.name # "" THEN v.name ELSE v.raw)

\* (v.id || v.name || v).toString().toLowerCase()
ResolveReorder(v) ==
  ToLowerCase(IF v.id # "" THEN v.id ELSE IF v.name # "" THEN v.name ELSE v.raw)

MatchedStableValues(matchedValues) ==
  [k \in 1..Len(matchedValues) |-> ResolveMatched(matchedValues[k])]

MoralValuesReorderList(moralValuesReorder, matchedStableValues) ==
  IF moralValuesReorder.state = "json"
    THEN [k \in 1..Len(moralValuesReorder.value) |-> ResolveReorder(moralValuesReorder.value[k])]
    ELSE matchedStableValues

\* --------------------------------------------------------- event classifier
CvrOpenEvents(events) == SelectSeq(events, LAMBDA e : e.event = "cvr_opened")

CvrAnswerEvents(events) == SelectSeq(events, LAMBDA e : e.event = "cvr_answered")

ApaEvents(events) == SelectSeq(events, LAMBDA e : e.event = "apa_reordered")

OfScenario(events, sid) == SelectSeq(events, LAMBDA e : e.scenarioId = sid)

CvrYesOf(events, sid) ==
  SelectSeq(CvrAnswerEvents(events), LAMBDA e : e.scenarioId = sid /\ e.cvrAnswer = "true")

OptionSelections(events, sid) ==
  SelectSeq(events, LAMBDA e : e.event = "option_selected" /\ e.scenarioId = sid)

\* ------------------------------------------------------------ decision time
IsTimed(scenario) == scenario.endTime # 0 /\ scenario.startTime # 0

TimeSeconds(scenario) == scenario.endTime - scenario.startTime

TimedHistory(history) == SelectSeq(history, IsTimed)

DecisionTimesFallbackEach(history, outcomes) ==
  LET n == IF Len(TimedHistory(history)) = 0 THEN Len(outcomes) ELSE Len(history)
  IN [k \in 1..n |->
        IF Len(TimedHistory(history)) # 0 /\ IsTimed(history[k])
          THEN TimeSeconds(history[k]) ELSE FallbackSeconds * Thousandths]

DecisionTimes(history, outcomes) ==
  LET timed == TimedHistory(history)
  IN IF Len(timed) = 0
       THEN [k \in 1..Len(outcomes) |-> FallbackSeconds * Thousandths]
       ELSE [k \in 1..Len(timed) |-> TimeSeconds(timed[k])]

TrackedEntry(scenario) ==
  [timeSeconds |-> MathRound(TimeSeconds(scenario)),
   switches |-> scenario.switchCount,
   cvrVisited |-> scenario.cvrVisited,
   cvrVisitCount |-> scenario.cvrVisitCount,
   cvrYesAnswers |-> scenario.cvrYesAnswers,
   apaReordered |-> scenario.apaReordered,
   apaReorderCount |-> scenario.apaReorderCount]

\* scenarioDetailsMap after the forEach over the first n history records
RECURSIVE ScenarioDetailsMap(_, _)
ScenarioDetailsMap(history, n) ==
  IF n = 0 THEN [x \in {} |-> TrackedEntry(history[1])]
  ELSE LET m == ScenarioDetailsMap(history, n - 1)
           s == history[n]
       IN IF IsTimed(s)
            THEN [x \in DOMAIN m \cup {s.scenarioId} |->
                    IF x = s.scenarioId THEN TrackedEntry(s) ELSE m[x]]
            ELSE m

DefaultEntry(decisionTimes, index) ==
  [timeSeconds |-> MathRound(IF index <= Len(decisionTimes) THEN decisionTimes[index] ELSE 0),
   switches |-> 0,
   cvrVisited |-> FALSE,
   cvrVisitCount |-> 0,
   cvrYesAnswers |-> 0,
   apaReordered |-> FALSE,
   apaReorderCount |-> 0]

TrackingData(map, decisionTimes, outcome, index) ==
  IF outcome.scenarioId \in DOMAIN map
    THEN map[outcome.scenarioId]
    ELSE DefaultEntry(decisionTimes, index)

\* ---------------------------------------------------------------- alignment
ValueExistsInList(outcome, matchedStableValues, moralValuesReorderList) ==
  LET optionValue == ToLowerCase(outcome.decision.label)
  IN IF outcome.scenarioId = 1 THEN Includes(matchedStableValues, optionValue)
     ELSE IF outcome.scenarioId = 2 \/ outcome.scenarioId = 3
       THEN Includes(moralValuesReorderList, optionValue)
       ELSE FALSE

AlignedIgnoringCvr(outcome, matchedStableValues, moralValuesReorderList, events) ==
  ValueExistsInList(outcome, matchedStableValues, moralValuesReorderList)

Aligned(outcome, matchedStableValues, moralValuesReorderList, events) ==
  /\ ValueExistsInList(outcome, matchedStableValues, moralValuesReorderList)
  /\ Len(CvrYesOf(events, outcome.scenarioId)) = 0

\* ---------------------------------------------------------- scenario details
FinalChoice(decision) ==
  IF decision.title # "" THEN decision.title
  ELSE IF decision.label # "" THEN decision.label ELSE "Unknown"

ScenarioDetail(outcome, index, map, decisionTimes, matched, moral, events) ==
  LET trackingData == TrackingData(map, decisionTimes, outcome, index)
      sid == outcome.scenarioId
      scenarioCvrVisits == OfScenario(CvrOpenEvents(events), sid)
      scenarioCvrYesAnswers == CvrYesOf(events, sid)
      scenarioApaEvents == OfScenario(ApaEvents(events), sid)
      switchCount == Max(0, Len(OptionSelections(events, sid)) - 1)
  IN [scenarioId |-> sid,
      finalChoice |-> FinalChoice(outcome.decision),
      aligned |-> Aligned(outcome, matched, moral, events),
      switches |-> IF trackingData.switches # 0 THEN trackingData.switches ELSE switchCount,
      timeSeconds |-> trackingData.timeSeconds,
      cvrVisited |-> trackingData.cvrVisited \/ Len(scenarioCvrVisits) > 0,
      cvrVisitCount |-> IF trackingData.cvrVisitCount # 0
                          THEN trackingData.cvrVisitCount ELSE Len(scenarioCvrVisits),
      cvrYesAnswers |-> IF trackingData.cvrYesAnswers # 0
                          THEN trackingData.cvrYesAnswers ELSE Len(scenarioCvrYesAnswers),
      apaReordered |-> trackingData.apaReordered \/ Len(scenarioApaEvents) > 0,
      apaReorderCount |-> IF trackingData.apaReorderCount # 0
                            THEN trackingData.apaReorderCount ELSE Len(scenarioApaEvents)]

ScenarioDetailsTrackedOnly(outcomes, history, decisionTimes, matched, moral, events) ==
  LET map == ScenarioDetailsMap(history, Len(history))
      all == [k \in 1..Len(outcomes) |->
                ScenarioDetail(outcomes[k], k, map, decisionTimes, matched, moral, events)]
  IN SelectSeq(all, LAMBDA d : d.scenarioId \in DOMAIN map)

ScenarioDetails(outcomes, history, decisionTimes, matched, moral, events) ==
  LET map == ScenarioDetailsMap(history, Len(history))
  IN [k \in 1..Len(outcomes) |->
        ScenarioDetail(outcomes[k], k, map, decisionTimes, matched, moral, events)]

\* ------------------------------------------- misalignment / realignment count
\* scenarioEvents.find(e => e.event === 'option_confirmed'): <<>> when none
ConfirmationEventLast(events, sid) ==
  LET confirmed == SelectSeq(OfScenario(events, sid), LAMBDA e : e.event = "option_confirmed")
  IN IF Len(confirmed) = 0 THEN <<>> ELSE <<confirmed[Len(confirmed)]>>

ConfirmationEvent(events, sid) ==
  LET confirmed == SelectSeq(OfScenario(events, sid), LAMBDA e : e.event = "option_confirmed")
  IN IF Len(confirmed) = 0 THEN <<>> ELSE <<confirmed[1]>>

HadReordering(events, sid) ==
  LET found == ConfirmationEvent(events, sid)
  IN /\ found # <<>>
     /\ found[1].flagsAtConfirmation.present
     /\ \/ found[1].flagsAtConfirmation.simulationMetricsReorderingFlag = "true"
        \/ found[1].flagsAtConfirmation.moralValuesReorderingFlag = "true"

RealignAfterCvrApaCount(scenarioDetails, events) ==
  SumSeq([k \in 1..Len(scenarioDetails) |->
            IF HadReordering(events, scenarioDetails[k].scenarioId) THEN 1 ELSE 0])

MisalignAfterCvrApaCount(scenarioDetails) ==
  SumSeq([k \in 1..Len(scenarioDetails) |-> IF scenarioDetails[k].aligned THEN 0 ELSE 1])

\* ------------------------------------------------------ composite metrics
Min(a, b) == IF a <= b THEN a ELSE b

\* Math.round(n / d), d > 0: half rounds up
RoundRatio(n, d) == (2 * n + d) \div (2 * d)

\* the normalized vector of lines 391-399 and 407-415, in hundredths
Normalized(finalMetrics) ==
  <<Min((finalMetrics.livesSaved * Hundredths) \div LivesSavedCap, Hundredths),
    Hundredths - Min((finalMetrics.humanCasualties * Hundredths) \div CasualtiesCap, Hundredths),
    (finalMetrics.firefightingResource * Hundredths) \div ConditionScale,
    (finalMetrics.infrastructureCondition * Hundredths) \div ConditionScale,
    (finalMetrics.biodiversityCondition * Hundredths) \div ConditionScale,
    (finalMetrics.propertiesCondition * Hundredths) \div ConditionScale,
    (finalMetrics.nuclearPowerStation * Hundredths) \div ConditionScale>>

\* Math.round(mean * 100) / 100, in hundredths
calculatePerformanceComposite(finalMetrics) ==
  LET values == Normalized(finalMetrics)
  IN RoundRatio(SumSeq(values), Len(values))

\* Math.round((1 - variance) * 100) / 100, in hundredths: with n values v of
\* sum s (in hundredths), variance = sum (n v - s)^2 / (n^3 * 100^2)
calculateBalanceIndex(finalMetrics) ==
  LET normalized == Normalized(finalMetrics)
      n == Len(normalized)
      s == SumSeq(normalized)
      squares == SumSeq([k \in 1..n |-> (n * normalized[k] - s) * (n * normalized[k] - s)])
      scale == n * n * n * Hundredths
  IN RoundRatio(Hundredths * scale - squares, scale)

\* ------------------------------------------------------------- the record
\* calculatedMetrics, lines 172-341
CalculatedMetrics(outcomes, finalMetrics, matchedValues, moralValuesReorder, history, events) ==
  LET matched == MatchedStableValues(matchedValues)
      moral == MoralValuesReorderList(moralValuesReorder, matched)
      decisionTimes == DecisionTimes(history, outcomes)
      scenarioDetails == ScenarioDetails(outcomes, history, decisionTimes, matched, moral, events)
      cvrAnswerEvents == CvrAnswerEvents(events)
  IN [cvrArrivals |-> Len(CvrOpenEvents(events)),
      cvrYesCount |-> Len(SelectSeq(cvrAnswerEvents, LAMBDA e : e.cvrAnswer = "true")),
      cvrNoCount |-> Len(SelectSeq(cvrAnswerEvents, LAMBDA e : e.cvrAnswer = "false")),
      apaReorderings |-> Len(ApaEvents(events)),
      misalignAfterCvrApaCount |-> MisalignAfterCvrApaCount(scenarioDetails),
      realignAfterCvrApaCount |-> RealignAfterCvrApaCount(scenarioDetails, events),
      switchCountTotal |-> SumSeq([k \in 1..Len(scenarioDetails) |-> scenarioDetails[k].switches]),
      decisionTimes |-> decisionTimes,
      performanceComposite |-> calculatePerformanceComposite(finalMetrics),
      balanceIndex |-> calculateBalanceIndex(finalMetrics),
      finalAlignmentByScenario |->
        [k \in 1..Len(outcomes) |-> Aligned(outcomes[k], matched, moral, events)],
      scenarioDetails |-> scenarioDetails]

\* ------------------------------------------------------------------ state
VARIABLES
  localStorage,     \* the stored items calculateMetrics parses
  scenarioHistory,  \* TrackingManager.getScenarioTrackingHistory()
  allEvents,        \* TrackingManager.getAllEvents()
  sessionStorage,   \* [metricsCalculated]: "true" or "null" (never set)
  page,             \* the mounted instances of ViewResultsPage
  insertCalls,      \* the calls of MongoService.insertSessionMetrics, in order
  location          \* the current route

vars == <<localStorage, scenarioHistory, allEvents, sessionStorage, page, insertCalls, location>>

inputs == <<localStorage, scenarioHistory, allEvents>>

Instances == 1..MaxMounts

SessionId == "session-1"

\* ----------------------------------------------------------- input values
Json(v) == [state |-> "json", value |-> v]

Absent == [state |-> "absent", value |-> <<>>]

Malformed == [state |-> "malformed", value |-> <<>>]

Str(s) == [id |-> "", name |-> "", raw |-> s]

Named(n) == [id |-> "", name |-> n, raw |-> "[object Object]"]

Identified(i, n) == [id |-> i, name |-> n, raw |-> "[object Object]"]

Outcome(sid, label, title) ==
  [scenarioId |-> sid, decision |-> [label |-> label, title |-> title]]

Snapshot ==
  [livesSaved |-> 20000, humanCasualties |-> 0, firefightingResource |-> 100,
   infrastructureCondition |-> 100, biodiversityCondition |-> 100,
   propertiesCondition |-> 100, nuclearPowerStation |-> 100]

NoSnapshot == [state |-> "absent", value |-> Snapshot]

BadSnapshot == [state |-> "malformed", value |-> Snapshot]

NoFlags ==
  [present |-> FALSE, simulationMetricsReorderingFlag |-> "undefined",
   moralValuesReorderingFlag |-> "undefined"]

Flags(sim, moral) ==
  [present |-> TRUE, simulationMetricsReorderingFlag |-> sim,
   moralValuesReorderingFlag |-> moral]

Event(kind, sid) ==
  [event |-> kind, scenarioId |-> sid, cvrAnswer |-> "undefined", flagsAtConfirmation |-> NoFlags]

Answered(sid, answer) ==
  [event |-> "cvr_answered", scenarioId |-> sid, cvrAnswer |-> answer,
   flagsAtConfirmation |-> NoFlags]

Confirmed(sid, flags) ==
  [event |-> "option_confirmed", scenarioId |-> sid, cvrAnswer |-> "undefined",
   flagsAtConfirmation |-> flags]

\* the elapsed thousandths of the timed record of scenario sid
ElapsedOf(sid) == CASE sid = 1 -> 10600 [] sid = 2 -> 20400 [] OTHER -> 30500

SessionStart == 5000

Tracking(sid, timed, counted) ==
  [scenarioId |-> sid,
   startTime |-> IF timed THEN SessionStart ELSE 0,
   endTime |-> IF timed THEN SessionStart + ElapsedOf(sid) ELSE 0,
   switchCount |-> IF counted THEN 2 ELSE 0,
   cvrVisited |-> counted,
   cvrVisitCount |-> IF counted THEN 3 ELSE 0,
   cvrYesAnswers |-> IF counted THEN 1 ELSE 0,
   apaReordered |-> counted,
   apaReorderCount |-> IF counted THEN 4 ELSE 0]

SeqsUpTo(S, lo, hi) == UNION {[1..k -> S] : k \in lo..hi}

DistinctScenarios(s) ==
  \A a, b \in 1..Len(s) : a # b => s[a].scenarioId # s[b].scenarioId

Store(outcomes, metrics, values, reorder, labels) ==
  [simulationScenarioOutcomes |-> outcomes,
   finalSimulationMetrics |-> metrics,
   finalValues |-> values,
   MoralValuesReorderList |-> reorder,
   ScenariosFinalDecisionLabels |-> labels]

Input(store, history, events) == [store |-> store, history |-> history, events |-> events]

BaseValues == <<Named("Safety"), Str("Fairness")>>

ReorderValues == <<Identified("SPEED", "Safety"), Named("Fairness")>>

\* sessions that differ in which stored items are present and well formed
FlowInputs ==
  {Input(Store(o, m, v, Absent, l), <<>>, <<Event("cvr_opened", 1)>>) :
     o \in {Absent, Malformed, Json(<<>>), Json(<<Outcome(1, "Safety", "Protect homes")>>)},
     m \in {NoSnapshot, BadSnapshot, Json(Snapshot)},
     v \in {Absent, Malformed, Json(BaseValues)},
     l \in {Absent, Malformed}}

\* sessions that differ in the decisions, the value lists and the CVR answers
AlignOutcomes ==
  {s \in SeqsUpTo({Outcome(sid, label, "") : sid \in 1..4, label \in {"Safety", "SPEED"}},
                  1, MaxOutcomes) :
     \A a, b \in 1..Len(s) : a < b => s[a].scenarioId < s[b].scenarioId}

AlignEvents ==
  {<<>>,
   <<Answered(1, "true")>>,
   <<Answered(1, "false"), Answered(2, "true")>>,
   <<Answered(2, "false"), Event("cvr_opened", 3)>>,
   <<Answered(3, "true"), Answered(4, "false")>>}

AlignInputs ==
  {Input(Store(Json(o), Json(Snapshot), Json(BaseValues), r, Absent), <<>>, e) :
     o \in AlignOutcomes,
     r \in {Absent, Malformed, Json(ReorderValues)},
     e \in AlignEvents}

\* sessions that differ in the tracking history
TrackOutcomes ==
  {s \in SeqsUpTo({Outcome(sid, "Safety", "") : sid \in 1..3}, 1, MaxOutcomes) :
     DistinctScenarios(s)}

TrackHistories ==
  {s \in SeqsUpTo({Tracking(sid, t, c) : sid \in 1..3, t \in BOOLEAN, c \in BOOLEAN},
                  0, MaxHistory) :
     DistinctScenarios(s)}

TrackEvents ==
  {<<>>,
   <<Event("option_selected", 1), Event("cvr_opened", 1), Answered(1, "true"),
     Event("option_selected", 1), Event("apa_reordered", 1), Event("option_selected", 2)>>}

TrackInputs ==
  {Input(Store(Json(o), Json(Snapshot), Json(BaseValues), Absent, Absent), h, e) :
     o \in TrackOutcomes, h \in TrackHistories, e \in TrackEvents}

\* sessions that differ in the event log
LogOutcomes ==
  {s \in SeqsUpTo({Outcome(sid, "Safety", "") : sid \in 1..2}, 1, MaxOutcomes) :
     DistinctScenarios(s)}

LogAlphabet ==
  {Confirmed(1, NoFlags), Confirmed(1, Flags("false", "false")),
   Confirmed(1, Flags("true", "undefined")), Confirmed(1, Flags("undefined", "true")),
   Confirmed(2, Flags("true", "false")), Event("option_selected", 1), Answered(1, "true")}

LogInputs ==
  {Input(Store(Json(o), Json(Snapshot), Json(BaseValues), Json(ReorderValues), Absent), <<>>, e) :
     o \in LogOutcomes, e \in SeqsUpTo(LogAlphabet, 0, MaxEvents)}

\* sessions that differ in the simulation-metrics snapshot
Snapshots ==
  {[livesSaved |-> l, humanCasualties |-> h, firefightingResource |-> f,
    infrastructureCondition |-> c, biodiversityCondition |-> r,
    propertiesCondition |-> r, nuclearPowerStation |-> r] :
     l \in {0, 10000, 20000, 40000}, h \in {0, 500, 1000, 3000},
     f \in {0, 35, 100, 200}, c \in {0, 100, 150}, r \in {0, 100}}

MetricsInputs ==
  {Input(Store(Json(<<Outcome(1, "Safety", "")>>), Json(m), Json(BaseValues), Absent, Absent),
         <<>>, <<>>) :
     m \in Snapshots}

Inputs == FlowInputs \cup AlignInputs \cup TrackInputs \cup LogInputs \cup MetricsInputs

\* ------------------------------------------------------------------- Init
Unmounted ==
  [pc |-> "unmounted", silent |-> FALSE, metrics |-> <<>>, write |-> "none",
   exit |-> "none", navigated |-> FALSE]

\* the state before the first mount, for a session drawn from S
Start(S) ==
  /\ \E in \in S :
       /\ localStorage = in.store
       /\ scenarioHistory = in.history
       /\ allEvents = in.events
  /\ sessionStorage = [metricsCalculated |-> "null"]
  /\ page = [i \in Instances |-> Unmounted]
  /\ insertCalls = <<>>
  /\ location = "/feedback"

Init == Start(FlowInputs)

InitSingle == Start(Inputs)

\* ------------------------------------------------- calculateMetrics, parts
simulationOutcomes == ParseItem(localStorage.simulationScenarioOutcomes, <<>>)

matchedValues == ParseItem(localStorage.finalValues, <<>>)

\* lines 160-162: one of the three JSON.parse calls throws
ReadThrows ==
  \/ ParseThrows(localStorage.simulationScenarioOutcomes)
  \/ ParseThrows(localStorage.finalSimulationMetrics)
  \/ ParseThrows(localStorage.finalValues)

\* line 167: !simulationOutcomes.length || !finalMetrics
MissingData ==
  \/ Len(simulationOutcomes) = 0
  \/ localStorage.finalSimulationMetrics.state = "absent"

\* lines 346-353: a JSON.parse of the passed-through items throws
PayloadThrows == ParseThrows(localStorage.ScenariosFinalDecisionLabels)

calculatedMetrics ==
  CalculatedMetrics(simulationOutcomes, localStorage.finalSimulationMetrics.value,
                    matchedValues, localStorage.MoralValuesReorderList,
                    scenarioHistory, allEvents)

\* sessionStorage.setItem('metricsCalculated', 'true')
SetCalculated(storage) == [storage EXCEPT !.metricsCalculated = "true"]

CatchBlockWithoutFlag(storage) == storage

\* lines 377-379, the storage after the catch block
CatchBlock(storage) == SetCalculated(storage)

\* lines 371-376 and 381-386: the timer of silent mode, or the end
AfterAttempt(silent) == IF silent THEN "timer" ELSE "done"

CanMount(i) ==
  /\ page[i].pc = "unmounted"
  /\ IF i = 1 THEN TRUE ELSE page[i - 1].pc # "unmounted"

\* ---------------------------------------------------------------- actions
\* useEffect, lines 147-153: silent replay with the flag already set
MountSkip(i) ==
  /\ CanMount(i)
  /\ sessionStorage.metricsCalculated = "true"
  /\ page' = [page EXCEPT ![i] = [@ EXCEPT !.pc = "done", !.silent = TRUE,
                                          !.exit = "skipped", !.navigated = TRUE]]
  /\ location' = "/thank-you"
  /\ UNCHANGED <<inputs, sessionStorage, insertCalls>>

\* useEffect line 155 and calculateMetrics up to its first suspension or return
MountCalculate(i, silent) ==
  /\ CanMount(i)
  /\ ~(silent /\ sessionStorage.metricsCalculated = "true")
  /\ location' = "/view-results"
  /\ IF ReadThrows
       THEN /\ page' = [page EXCEPT ![i] = [@ EXCEPT !.pc = AfterAttempt(silent),
                                                    !.silent = silent, !.exit = "caught"]]
            /\ sessionStorage' = CatchBlock(sessionStorage)
            /\ UNCHANGED insertCalls
       ELSE IF MissingData
       THEN /\ page' = [page EXCEPT ![i] = [@ EXCEPT !.pc = "done", !.silent = silent,
                                                    !.exit = "returned"]]
            /\ UNCHANGED <<sessionStorage, insertCalls>>
       ELSE IF PayloadThrows
       THEN /\ page' = [page EXCEPT ![i] = [@ EXCEPT !.pc = AfterAttempt(silent),
                                                    !.silent = silent, !.exit = "caught",
                                                    !.metrics = <<calculatedMetrics>>]]
            /\ sessionStorage' = CatchBlock(sessionStorage)
            /\ UNCHANGED insertCalls
       ELSE /\ page' = [page EXCEPT ![i] = [@ EXCEPT !.pc = "awaiting", !.silent = silent,
                                                    !.write = "pending",
                                                    !.metrics = <<calculatedMetrics>>]]
            /\ insertCalls' = Append(insertCalls,
                 [by |-> i, session_id |-> SessionId, metrics |-> calculatedMetrics])
            /\ UNCHANGED sessionStorage
  /\ UNCHANGED inputs

\* the awaited write succeeds: lines 368-376
InsertResolved(i) ==
  /\ page[i].pc = "awaiting"
  /\ sessionStorage' = SetCalculated(sessionStorage)
  /\ page' = [page EXCEPT ![i] = [@ EXCEPT !.pc = AfterAttempt(page[i].silent),
                                          !.write = "ok", !.exit = "completed"]]
  /\ UNCHANGED <<inputs, insertCalls, location>>

\* the awaited write fails: lines 377-387
InsertRejected(i) ==
  /\ page[i].pc = "awaiting"
  /\ sessionStorage' = CatchBlock(sessionStorage)
  /\ page' = [page EXCEPT ![i] = [@ EXCEPT !.pc = AfterAttempt(page[i].silent),
                                          !.write = "failed", !.exit = "caught"]]
  /\ UNCHANGED <<inputs, insertCalls, location>>

\* the setTimeout callback of lines 373-375 and 383-385
TimerFires(i) ==
  /\ page[i].pc = "timer"
  /\ page' = [page EXCEPT ![i] = [@ EXCEPT !.pc = "done", !.navigated = TRUE]]
  /\ location' = "/thank-you"
  /\ UNCHANGED <<inputs, sessionStorage, insertCalls>>

Next ==
  \/ \E i \in Instances : MountSkip(i)
  \/ \E i \in Instances, silent \in BOOLEAN : MountCalculate(i, silent)
  \/ \E i \in Instances : InsertResolved(i)
  \/ \E i \in Instances : InsertRejected(i)
  \/ \E i \in Instances : TimerFires(i)

\* any number of mounts, up to MaxMounts, over the sessions of FlowInputs
Spec == Init /\ [][Next]_vars

\* one mount of the page, over every session of Inputs
NextSingle ==
  \/ \E silent \in BOOLEAN : MountCalculate(1, silent)
  \/ InsertResolved(1)
  \/ InsertRejected(1)
  \/ TimerFires(1)

SpecSingle == InitSingle /\ [][NextSingle]_vars

\* ----------------------------------------------------------------- claims
Produced(i) == page[i].metrics # <<>>

Record(i) == page[i].metrics[1]

CallsBy(i) == {c \in 1..Len(insertCalls) : insertCalls[c].by = i}

TimedRecords == {h \in 1..Len(scenarioHistory) :
                   scenarioHistory[h].startTime # 0 /\ scenarioHistory[h].endTime # 0}

RecordsOf(sid) == {h \in 1..Len(scenarioHistory) : scenarioHistory[h].scenarioId = sid}

YesAnswers(sid) ==
  {e \in 1..Len(allEvents) : /\ allEvents[e].event = "cvr_answered"
                             /\ allEvents[e].scenarioId = sid
                             /\ allEvents[e].cvrAnswer = "true"}

EventsOfKind(kind, sid) ==
  {e \in 1..Len(allEvents) : allEvents[e].event = kind /\ allEvents[e].scenarioId = sid}

BaselineSet == {ResolveMatched(matchedValues[v]) : v \in 1..Len(matchedValues)}

ReorderSet ==
  IF localStorage.MoralValuesReorderList.state = "json"
    THEN {ResolveReorder(localStorage.MoralValuesReorderList.value[v]) :
            v \in 1..Len(localStorage.MoralValuesReorderList.value)}
    ELSE BaselineSet

\* C1: an invocation of calculateMetrics that found the snapshot absent or the
\* outcome list empty has produced no record, has made no write to the sink,
\* and the flag metricsCalculated is "true" once it has finished.
C1_MissingDataSetsFlag ==
  \A i \in Instances :
    (page[i].exit = "returned" /\ page[i].pc = "done") =>
      /\ page[i].metrics = <<>>
      /\ CallsBy(i) = {}
      /\ sessionStorage.metricsCalculated = "true"

\* C2: over any sequence of mounts of the page in one session the sink
\* receives at most one insertSessionMetrics write.
C2_AtMostOneWrite == Len(insertCalls) <= 1

\* C3: a silent invocation that has run to its end (nothing of it is
\* suspended or scheduled any more) has navigated to /thank-you.
C3_SilentAlwaysNavigates ==
  \A i \in Instances :
    (page[i].silent /\ page[i].pc = "done") => page[i].navigated

\* C4: when the write to the sink fails, the failure is caught inside
\* calculateMetrics (the invocation goes on to its end), the invocation has
\* made exactly one write attempt, the flag is "true", and the computed
\* record is still the component's metrics state.
C4_WriteFailureContained ==
  \A i \in Instances :
    page[i].write = "failed" =>
      /\ page[i].exit = "caught"
      /\ page[i].pc \in {"timer", "done"}
      /\ Cardinality(CallsBy(i)) = 1
      /\ sessionStorage.metricsCalculated = "true"
      /\ \A c \in CallsBy(i) : page[i].metrics = <<insertCalls[c].metrics>>

C4_Witness ==
  \E i \in Instances : page[i].write = "failed" /\ page[i].pc = "done" /\ Produced(i)

\* C5: in every produced record scenarioDetails, finalAlignmentByScenario and
\* the outcome list have the same length and the k-th scenarioDetails entry
\* carries the scenarioId of the k-th outcome, so that (the outcomes having
\* distinct scenarios) each outcome's scenario appears exactly once.
C5_DetailsFollowOutcomes ==
  \A i \in Instances :
    Produced(i) =>
      LET details == Record(i).scenarioDetails
      IN /\ Len(details) = Len(simulationOutcomes)
         /\ Len(Record(i).finalAlignmentByScenario) = Len(simulationOutcomes)
         /\ \A k \in 1..Len(simulationOutcomes) :
              /\ k \in DOMAIN details
              /\ details[k].scenarioId = simulationOutcomes[k].scenarioId
              /\ DistinctScenarios(simulationOutcomes) =>
                   Cardinality({d \in DOMAIN details :
                                  details[d].scenarioId = simulationOutcomes[k].scenarioId}) = 1

C5_Witness ==
  \E i \in Instances :
    /\ Produced(i)
    /\ Len(simulationOutcomes) = 2
    /\ RecordsOf(simulationOutcomes[1].scenarioId) = {}
    /\ RecordsOf(simulationOutcomes[2].scenarioId) \cap TimedRecords # {}

\* C6: in every produced record decisionTimes has one entry per outcome, in
\* outcome order: the k-th entry is the elapsed time of the tracking record of
\* the k-th outcome's scenario when that record is timed, and 75 when no
\* record of the history is timed.
C6_DecisionTimesPerOutcome ==
  \A i \in Instances :
    Produced(i) =>
      LET times == Record(i).decisionTimes
      IN /\ Len(times) = Len(simulationOutcomes)
         /\ \A k \in 1..Len(simulationOutcomes) :
              /\ \A h \in RecordsOf(simulationOutcomes[k].scenarioId) \cap TimedRecords :
                   times[k] = scenarioHistory[h].endTime - scenarioHistory[h].startTime
              /\ TimedRecords = {} => times[k] = FallbackSeconds * Thousandths

\* C7: the alignment written for an outcome, in finalAlignmentByScenario and
\* in scenarioDetails, is true exactly when the lower-cased label is in the
\* reference set of the scenario (baseline for 1, reorder list for 2 and 3,
\* none for any other id) and the log has no cvr_answered event with answer
\* true for the scenario.
C7_Expected(outcome) ==
  /\ \/ outcome.scenarioId = 1 /\ ToLowerCase(outcome.decision.label) \in BaselineSet
     \/ outcome.scenarioId \in {2, 3} /\ ToLowerCase(outcome.decision.label) \in ReorderSet
  /\ YesAnswers(outcome.scenarioId) = {}

C7_AlignmentRule ==
  \A i \in Instances :
    Produced(i) =>
      \A k \in 1..Len(simulationOutcomes) :
        /\ Record(i).finalAlignmentByScenario[k] = C7_Expected(simulationOutcomes[k])
        /\ Record(i).scenarioDetails[k].aligned = C7_Expected(simulationOutcomes[k])

C7_Witness ==
  \E i \in Instances :
    /\ Produced(i)
    /\ Len(simulationOutcomes) = 2
    /\ simulationOutcomes[1].scenarioId = 1
    /\ ToLowerCase(simulationOutcomes[1].decision.label) \in BaselineSet
    /\ YesAnswers(1) # {}
    /\ ~Record(i).finalAlignmentByScenario[1]
    /\ simulationOutcomes[2].scenarioId = 3
    /\ Record(i).finalAlignmentByScenario[2]

\* C8: for every outcome whose scenario has a tracking record, timed or not,
\* each counter and flag of its scenarioDetails entry is the tracked value
\* when that is truthy and the value recomputed from the scenario's events
\* otherwise.
C8_TrackedOrRecomputed ==
  \A i \in Instances :
    Produced(i) =>
      \A k \in 1..Len(simulationOutcomes) :
        \A h \in RecordsOf(simulationOutcomes[k].scenarioId) :
          LET sid == simulationOutcomes[k].scenarioId
              tracked == scenarioHistory[h]
              detail == Record(i).scenarioDetails[k]
              opened == Cardinality(EventsOfKind("cvr_opened", sid))
              reordered == Cardinality(EventsOfKind("apa_reordered", sid))
              selected == Cardinality(EventsOfKind("option_selected", sid))
          IN /\ detail.switches = IF tracked.switchCount # 0 THEN tracked.switchCount
                                  ELSE Max(0, selected - 1)
             /\ detail.cvrVisited = IF tracked.cvrVisited THEN TRUE ELSE opened > 0
             /\ detail.cvrVisitCount = IF tracked.cvrVisitCount # 0 THEN tracked.cvrVisitCount
                                       ELSE opened
             /\ detail.cvrYesAnswers = IF tracked.cvrYesAnswers # 0 THEN tracked.cvrYesAnswers
                                       ELSE Cardinality(YesAnswers(sid))
             /\ detail.apaReordered = IF tracked.apaReordered THEN TRUE ELSE reordered > 0
             /\ detail.apaReorderCount = IF tracked.apaReorderCount # 0
                                           THEN tracked.apaReorderCount ELSE reordered

\* C9: decisionTimes is one 75 per outcome when no record of the tracking
\* history has both timestamps; when some record has, it is exactly the
\* elapsed times (endTime - startTime) / 1000 of the timed records, in the
\* order of the history, with no entry for an untimed scenario.
C9_FallbackOnlyWhenNoneTimed ==
  \A i \in Instances :
    Produced(i) =>
      LET times == Record(i).decisionTimes
      IN IF TimedRecords = {}
           THEN times = [k \in 1..Len(simulationOutcomes) |-> FallbackSeconds * Thousandths]
           ELSE /\ Len(times) = Cardinality(TimedRecords)
                /\ \A h \in TimedRecords :
                     times[Cardinality({g \in TimedRecords : g <= h})] =
                       scenarioHistory[h].endTime - scenarioHistory[h].startTime

C9_Witness ==
  \E i \in Instances :
    /\ Produced(i)
    /\ Len(simulationOutcomes) = 2
    /\ Len(scenarioHistory) = 2
    /\ Cardinality(TimedRecords) = 1
    /\ \A k \in 1..2 : RecordsOf(simulationOutcomes[k].scenarioId) # {}
    /\ Len(Record(i).decisionTimes) = 1

\* C10: realignAfterCvrApaCount is the number of scenarioDetails entries whose
\* scenario's first option_confirmed event of the log carries a true
\* simulationMetricsReorderingFlag or moralValuesReorderingFlag, and
\* misalignAfterCvrApaCount is the number of entries that are not aligned.
C10_FirstConfirmationFlagged(sid) ==
  \E e \in EventsOfKind("option_confirmed", sid) :
    /\ \A f \in EventsOfKind("option_confirmed", sid) : e <= f
    /\ allEvents[e].flagsAtConfirmation.present
    /\ \/ allEvents[e].flagsAtConfirmation.simulationMetricsReorderingFlag = "true"
       \/ allEvents[e].flagsAtConfirmation.moralValuesReorderingFlag = "true"

C10_IndependentCounts ==
  \A i \in Instances :
    Produced(i) =>
      LET details == Record(i).scenarioDetails
      IN /\ Record(i).realignAfterCvrApaCount =
              Cardinality({d \in DOMAIN details :
                             C10_FirstConfirmationFlagged(details[d].scenarioId)})
         /\ Record(i).misalignAfterCvrApaCount =
              Cardinality({d \in DOMAIN details : ~details[d].aligned})

C10_Witness ==
  \E i \in Instances :
    /\ Produced(i)
    /\ Cardinality(EventsOfKind("option_confirmed", 1)) = 2
    /\ ~C10_FirstConfirmationFlagged(1)
    /\ allEvents[2].flagsAtConfirmation.simulationMetricsReorderingFlag = "true"
    /\ \E d \in DOMAIN Record(i).scenarioDetails : Record(i).scenarioDetails[d].scenarioId = 1
    /\ Record(i).realignAfterCvrApaCount = 0

\* C11: for every snapshot with non-negative fields, condition fields above
\* 100 and counts above the caps included, the performance composite of a
\* produced record is in [0, 1] and its balance index is at most 1; for the
\* snapshot with livesSaved 20000, no casualties and every condition at 100
\* both are exactly 1.
C11_IndicesInRange ==
  \A i \in Instances :
    Produced(i) =>
      /\ Record(i).performanceComposite >= 0
      /\ Record(i).performanceComposite <= Hundredths
      /\ Record(i).balanceIndex <= Hundredths
      /\ localStorage.finalSimulationMetrics.value = Snapshot =>
           /\ Record(i).performanceComposite = Hundredths
           /\ Record(i).balanceIndex = Hundredths

\* C12: the timeSeconds of a scenarioDetails entry is the rounded elapsed time
\* of a timed tracking record of the same scenario, or 75 when no record of
\* the history is timed; it is never taken from a record of another scenario.
C12_OwnElapsed(sid) ==
  {MathRound(scenarioHistory[h].endTime - scenarioHistory[h].startTime) :
     h \in RecordsOf(sid) \cap TimedRecords}

C12_TimeFromOwnRecord ==
  \A i \in Instances :
    Produced(i) =>
      \A k \in 1..Len(simulationOutcomes) :
        Record(i).scenarioDetails[k].timeSeconds \in
          C12_OwnElapsed(simulationOutcomes[k].scenarioId)
            \cup (IF TimedRecords = {} THEN {FallbackSeconds} ELSE {})

====
